---- MODULE Spec2Model ----
(***************************************************************************)
(* Model of bot.py, the income/expense ledger bot.                         *)
(*                                                                         *)
(* The state is the `expenses` table, SQLite's AUTOINCREMENT counter, the  *)
(* wall clock as last read, the update handled last and the reply to it.   *)
(* `order` is a history variable: the ids of the stored rows in the order  *)
(* of their insertion.  There is one action per handler registered in      *)
(* main().                                                                 *)
(*                                                                         *)
(* Representation.                                                         *)
(*  - A message is the token list `parts` that text.strip().split() gives; *)
(*    a token is a string without whitespace.                              *)
(*  - An amount is an integer number of half units: 10 is 5.0, 5 is 2.5.   *)
(*    Every amount of the model is a multiple of 0.5, on which float       *)
(*    addition is exact.                                                   *)
(*  - A datetime is a record [y, mo, d, h, mi, s, us].  Its isoformat()    *)
(*    text is modelled by the sequence of its zero-padded fixed-width      *)
(*    fields, <<y, mo, d, h, mi, s>>, followed by <<us>> only when us # 0, *)
(*    as isoformat() omits the fraction of a whole second.  SQLite         *)
(*    compares TEXT bytewise, a proper prefix being the smaller; on these  *)
(*    sequences that is the lexicographic order TextLess.                  *)
(***************************************************************************)
EXTENDS Integers, Sequences, FiniteSets, TLC

VARIABLES expenses, seq, now, op, reply, order

vars == <<expenses, seq, now, op, reply, order>>

-----------------------------------------------------------------------------
(* Bounds of the model.                                                    *)

\* Rows ever inserted in a behaviour.
MaxRows == 2

-----------------------------------------------------------------------------
(* Text, numbers and dates.                                                *)

\* user_id of a row inserted without one; Telegram user ids are positive.
NULL == 0

\* SQL "a = b": never true when either side is NULL.
SqlEq(a, b) == a # NULL /\ b # NULL /\ a = b

RECURSIVE TextLess(_, _)
\* a < b for TEXT values under SQLite's BINARY collation.
TextLess(a, b) ==
    IF b = <<>> THEN FALSE
    ELSE IF a = <<>> THEN TRUE
    ELSE IF Head(a) # Head(b) THEN Head(a) < Head(b)
    ELSE TextLess(Tail(a), Tail(b))

TextLeq(a, b) == a = b \/ TextLess(a, b)

\* x BETWEEN lo AND hi
Between(x, lo, hi) == TextLeq(lo, x) /\ TextLeq(x, hi)

\* datetime.isoformat()
isoformat(dt) ==
    <<dt.y, dt.mo, dt.d, dt.h, dt.mi, dt.s>>
        \o (IF dt.us = 0 THEN <<>> ELSE <<dt.us>>)

\* date.isoformat(), of datetime.date()
date_isoformat(dt) == <<dt.y, dt.mo, dt.d>>

IsLeap(y) == (y % 4 = 0 /\ y % 100 # 0) \/ y % 400 = 0

DaysInMonth(y, m) ==
    CASE m = 2 -> IF IsLeap(y) THEN 29 ELSE 28
      [] m \in {4, 6, 9, 11} -> 30
      [] OTHER -> 31

\* The same time of day on the day before.
PrevDay(dt) ==
    IF dt.d > 1 THEN [dt EXCEPT !.d = dt.d - 1]
    ELSE IF dt.mo > 1
         THEN [dt EXCEPT !.mo = dt.mo - 1, !.d = DaysInMonth(dt.y, dt.mo - 1)]
         ELSE [dt EXCEPT !.y = dt.y - 1, !.mo = 12, !.d = 31]

RECURSIVE MinusDays(_, _)
\* dt - timedelta(days=n)
MinusDays(dt, n) == IF n = 0 THEN dt ELSE MinusDays(PrevDay(dt), n - 1)

\* The instants in chronological order.
Key(dt) == <<dt.y, dt.mo, dt.d, dt.h, dt.mi, dt.s, dt.us>>
NotBefore(t, u) == TextLeq(Key(u), Key(t))

DT(y, mo, d, h, mi, s, us) ==
    [y |-> y, mo |-> mo, d |-> d, h |-> h, mi |-> mi, s |-> s, us |-> us]

\* datetime.strptime(s, "%d/%m/%Y"): the date at 00:00:00, or ValueError.
strptime(s) ==
    CASE s = "31/01/2026" -> [ok |-> TRUE, dt |-> DT(2026, 1, 31, 0, 0, 0, 0)]
      [] s = "01/02/2026" -> [ok |-> TRUE, dt |-> DT(2026, 2, 1, 0, 0, 0, 0)]
      [] s = "1/2/2026"   -> [ok |-> TRUE, dt |-> DT(2026, 2, 1, 0, 0, 0, 0)]
      [] s = "02/02/2026" -> [ok |-> TRUE, dt |-> DT(2026, 2, 2, 0, 0, 0, 0)]
      [] OTHER            -> [ok |-> FALSE, dt |-> DT(0, 0, 0, 0, 0, 0, 0)]

\* float(s): the value in half units, NaN, or ValueError.
float(s) ==
    CASE s = "5"   -> [ok |-> TRUE, nan |-> FALSE, val |-> 10]
      [] s = "2.5" -> [ok |-> TRUE, nan |-> FALSE, val |-> 5]
      [] s = "0"   -> [ok |-> TRUE, nan |-> FALSE, val |-> 0]
      [] s = "-2.5" -> [ok |-> TRUE, nan |-> FALSE, val |-> -5]
      [] s = "nan" -> [ok |-> TRUE, nan |-> TRUE, val |-> 0]
      [] OTHER     -> [ok |-> FALSE, nan |-> FALSE, val |-> 0]

Abs(v) == IF v < 0 THEN -v ELSE v

\* f"{v:.0f}": v to the nearest integer, a tie to the even one, with the
\* sign of v kept ("-0" for -0.5).
Fmt0(v) ==
    LET h == Abs(v)
        q == h \div 2
    IN  [neg |-> v < 0,
         int |-> IF h % 2 = 0 THEN q ELSE IF q % 2 = 0 THEN q ELSE q + 1]

RECURSIVE join(_)
\* " ".join(tokens)
join(tokens) ==
    IF tokens = <<>> THEN ""
    ELSE IF Len(tokens) = 1 THEN tokens[1]
    ELSE tokens[1] \o " " \o join(Tail(tokens))

RECURSIVE SumAmount(_)
\* SUM(amount) over a set of rows
SumAmount(rows) ==
    IF rows = {} THEN 0
    ELSE LET r == CHOOSE r \in rows : TRUE
         IN  r.amount + SumAmount(rows \ {r})

RECURSIVE SumTotals(_)
\* sum(total for ... in results)
SumTotals(results) ==
    IF results = {} THEN 0
    ELSE LET r == CHOOSE r \in results : TRUE
         IN  r.total + SumTotals(results \ {r})

-----------------------------------------------------------------------------
(* The helpers of bot.py.                                                  *)

\* The row add_entry inserts at clock reading t: the next AUTOINCREMENT id
\* and no user_id.
NewRow(amount, category, entry_type, t) ==
    [id |-> seq + 1, user_id |-> NULL, amount |-> amount,
     category |-> category, type |-> entry_type, date |-> isoformat(t)]

\* SELECT type, SUM(amount) FROM expenses WHERE date >= ? GROUP BY type
SelectTotalsSince(table, since) ==
    LET rows == {r \in table : TextLeq(since, r.date)}
    IN  {[type |-> t, total |-> SumAmount({r \in rows : r.type = t})] :
            t \in {r.type : r \in rows}}

\* The (income, expense) pair both totals functions build from the result.
TotalsPair(results) ==
    [income  |-> SumTotals({x \in results : x.type = "income"}),
     expense |-> SumTotals({x \in results : x.type = "expense"})]

\* timedelta(days=7)
WeekDays == 7

week_ago(t) == MinusDays(t, WeekDays)

start_of_month(t) == [t EXCEPT !.d = 1, !.h = 0, !.mi = 0, !.s = 0]

get_week_total(table, t) ==
    TotalsPair(SelectTotalsSince(table, isoformat(week_ago(t))))

get_month_total(table, t) ==
    TotalsPair(SelectTotalsSince(table, isoformat(start_of_month(t))))

\* SelectByCategorySince with the comparison strict: WHERE date > ?.
SelectByCategoryAfter(table, since) ==
    LET rows == {r \in table : TextLess(since, r.date)}
    IN  {[category |-> g[1], type |-> g[2],
          total |-> SumAmount({r \in rows : r.category = g[1] /\ r.type = g[2]})] :
            g \in {<<r.category, r.type>> : r \in rows}}

\* SELECT category, type, SUM(amount) FROM expenses WHERE date >= ?
\* GROUP BY category, type
SelectByCategorySince(table, since) ==
    LET rows == {r \in table : TextLeq(since, r.date)}
    IN  {[category |-> g[1], type |-> g[2],
          total |-> SumAmount({r \in rows : r.category = g[1] /\ r.type = g[2]})] :
            g \in {<<r.category, r.type>> : r \in rows}}

\* data = {"income": {}, "expense": {}}; data[t][cat] = total
ByCategory(results) ==
    LET map(t) ==
            [c \in {x.category : x \in {x \in results : x.type = t}} |->
                (CHOOSE x \in results : x.type = t /\ x.category = c).total]
    IN  [income |-> map("income"), expense |-> map("expense")]

get_week_totals_by_category(table, t) ==
    ByCategory(SelectByCategorySince(table, isoformat(week_ago(t))))

get_month_totals_by_category(table, t) ==
    ByCategory(SelectByCategorySince(table, isoformat(start_of_month(t))))

\* sign = "+" if net > 0 else ""; f"{sign}{net:.0f}"
Net(income, expense) ==
    LET net == income - expense
    IN  [sign |-> IF net > 0 THEN "+" ELSE "", text |-> Fmt0(net)]

\* The rows, totals and net of format_summary.
format_summary(rows) ==
    LET income_total  == SumTotals({x \in rows : x.type = "income"})
        expense_total == SumTotals({x \in rows : x.type # "income"})
    IN  [lines   |-> {[category |-> x.category, type |-> x.type,
                       total |-> Fmt0(x.total)] : x \in rows},
         income  |-> Fmt0(income_total),
         expense |-> Fmt0(expense_total),
         net     |-> Net(income_total, expense_total)]

-----------------------------------------------------------------------------
(* Initial state: a new database, no update handled yet.                   *)

Start == DT(2026, 1, 31, 23, 59, 59, 500000)

NoOp == [name |-> "none"]

Init ==
    /\ expenses = {}
    /\ seq = 0
    /\ now = Start
    /\ op = NoOp
    /\ reply = [kind |-> "none"]
    /\ order = <<>>

-----------------------------------------------------------------------------
(* The handlers.                                                           *)

\* ParseEntry with the length test off by one: len(parts) < 1.
ParseEntryShort(parts) ==
    LET n == Len(parts)
        rejected(why) ==
            [status |-> why, type |-> "", amount |-> float(""), category |-> ""]
    IN  IF n < 1 THEN rejected("format")
        ELSE IF ~float(parts[n]).ok THEN rejected("number")
        ELSE [status |-> "ok", type |-> "expense", amount |-> float(parts[n]),
              category |-> join(SubSeq(parts, 1, n - 1))]

\* Lines 122-147 of handle_message: the entry a token list stands for, or
\* the reason it is rejected.
ParseEntry(parts) ==
    LET n == Len(parts)
        rejected(why) ==
            [status |-> why, type |-> "", amount |-> float(""), category |-> ""]
    IN  IF n < 2 THEN rejected("format")
        ELSE IF parts[n] = "+"
             THEN IF ~float(parts[n - 1]).ok THEN rejected("number")
                  ELSE [status |-> "ok", type |-> "income",
                        amount |-> float(parts[n - 1]),
                        category |-> join(SubSeq(parts, 1, n - 2))]
             ELSE IF ~float(parts[n]).ok THEN rejected("number")
                  ELSE [status |-> "ok", type |-> "expense",
                        amount |-> float(parts[n]),
                        category |-> join(SubSeq(parts, 1, n - 1))]

\* add_entry commits a row: the parse succeeded and the amount is not NaN,
\* which sqlite3 binds as NULL and the NOT NULL column refuses.
Inserts(parts) ==
    ParseEntry(parts).status = "ok" /\ ~ParseEntry(parts).amount.nan

\* A free-text message.  add_entry, get_week_total and get_month_total read
\* the clock one after the other, at t1, t2 and t3.  The reply keeps the
\* pairs the two totals functions returned (week, month) next to the texts
\* made of them.
handle_message(parts, t1, t2, t3) ==
    LET p == ParseEntry(parts)
    IN  /\ NotBefore(t1, now) /\ NotBefore(t2, t1) /\ NotBefore(t3, t2)
        /\ IF p.status # "ok"
           THEN /\ op' = [name |-> "message", parts |-> parts, at |-> <<>>]
                /\ reply' = [kind |-> IF p.status = "format"
                                      THEN "bad format" ELSE "not a number"]
                /\ UNCHANGED <<expenses, seq, now, order>>
           ELSE IF p.amount.nan
           THEN \* sqlite3.IntegrityError leaves add_entry; nothing replies
                /\ op' = [name |-> "message", parts |-> parts, at |-> <<t1>>]
                /\ reply' = [kind |-> "fault"]
                /\ now' = t1
                /\ UNCHANGED <<expenses, seq, order>>
           ELSE LET table == expenses \cup
                        {NewRow(p.amount.val, p.category, p.type, t1)}
                    week  == get_week_total(table, t2)
                    month == get_month_total(table, t3)
                IN  /\ expenses' = table
                    /\ order' = Append(order, seq + 1)
                    /\ seq' = seq + 1
                    /\ now' = t3
                    /\ op' = [name |-> "message", parts |-> parts,
                              at |-> <<t1, t2, t3>>]
                    /\ reply' = [kind |-> "recorded",
                                 week |-> week, month |-> month,
                                 week_text |-> [income  |-> Fmt0(week.income),
                                                expense |-> Fmt0(week.expense)],
                                 week_net |-> Net(week.income, week.expense),
                                 month_text |-> [income  |-> Fmt0(month.income),
                                                 expense |-> Fmt0(month.expense)],
                                 month_net |-> Net(month.income, month.expense)]

\* The reply of week_summary and month_summary to the maps `data`.
Summary(data) ==
    IF DOMAIN data.income = {} /\ DOMAIN data.expense = {}
    THEN [kind |-> "no data"]
    ELSE LET total_income ==
                 SumTotals({[category |-> c, total |-> data.income[c]] :
                               c \in DOMAIN data.income})
             total_expense ==
                 SumTotals({[category |-> c, total |-> data.expense[c]] :
                               c \in DOMAIN data.expense})
         IN  [kind |-> "summary", data |-> data,
              income_text  |-> [c \in DOMAIN data.income |-> Fmt0(data.income[c])],
              expense_text |-> [c \in DOMAIN data.expense |-> Fmt0(data.expense[c])],
              total_income |-> Fmt0(total_income),
              total_expense |-> Fmt0(total_expense),
              net |-> Net(total_income, total_expense)]

\* /week; op.again records that the update before was /week too
week_summary(t) ==
    /\ NotBefore(t, now)
    /\ now' = t
    /\ op' = [name |-> "week", at |-> t, again |-> op.name = "week"]
    /\ reply' = Summary(get_week_totals_by_category(expenses, t))
    /\ UNCHANGED <<expenses, seq, order>>

\* /month; op.again records that the update before was /month too
month_summary(t) ==
    /\ NotBefore(t, now)
    /\ now' = t
    /\ op' = [name |-> "month", at |-> t, again |-> op.name = "month"]
    /\ reply' = Summary(get_month_totals_by_category(expenses, t))
    /\ UNCHANGED <<expenses, seq, order>>

\* LastRow with the order reversed: ORDER BY id LIMIT 1.
FirstRow(table) == CHOOSE r \in table : \A q \in table : r.id <= q.id

\* SELECT ... FROM expenses ORDER BY id DESC LIMIT 1, on a table with rows
LastRow(table) == CHOOSE r \in table : \A q \in table : q.id <= r.id

\* The ids of `ids`, a sequence, that are ids of rows of the table.
Stored(ids, table) ==
    SelectSeq(ids, LAMBDA i : \E r \in table : r.id = i)

\* /undo
undo_last ==
    /\ op' = [name |-> "undo"]
    /\ IF expenses = {}
       THEN /\ reply' = [kind |-> "nothing to delete"]
            /\ UNCHANGED expenses
       ELSE LET last == LastRow(expenses)
            IN  /\ expenses' = {r \in expenses : r.id # last.id}
                /\ reply' = [kind |-> "undone", category |-> last.category,
                             amount |-> Fmt0(last.amount), type |-> last.type]
    /\ order' = Stored(order, expenses')
    /\ UNCHANGED <<seq, now>>

\* DELETE FROM expenses WHERE date BETWEEN ? AND ?, for the day of dt
RowsOfDay(table, dt) ==
    LET start == [dt EXCEPT !.h = 0, !.mi = 0, !.s = 0]
        end   == [dt EXCEPT !.h = 23, !.mi = 59, !.s = 59]
    IN  {r \in table : Between(r.date, isoformat(start), isoformat(end))}

\* /delete
delete_by_date(args) ==
    /\ op' = [name |-> "delete", args |-> args]
    /\ IF Len(args) # 1
       THEN /\ reply' = [kind |-> "delete usage"]
            /\ UNCHANGED expenses
       ELSE IF ~strptime(args[1]).ok
       THEN /\ reply' = [kind |-> "invalid date"]
            /\ UNCHANGED expenses
       ELSE /\ expenses' = expenses \ RowsOfDay(expenses, strptime(args[1]).dt)
            /\ reply' = [kind |-> "deleted", date_str |-> args[1]]
    /\ order' = Stored(order, expenses')
    /\ UNCHANGED <<seq, now>>

\* SELECT category, type, SUM(amount) FROM expenses
\* WHERE user_id = ? AND date = ? GROUP BY category, type
SelectOnDate(table, user_id, day) ==
    LET rows == {r \in table : SqlEq(r.user_id, user_id) /\ r.date = day}
    IN  {[category |-> g[1], type |-> g[2],
          total |-> SumAmount({r \in rows : r.category = g[1] /\ r.type = g[2]})] :
            g \in {<<r.category, r.type>> : r \in rows}}

\* /search, sent by user_id; context.args[1] is the second argument
search_date(user_id, args) ==
    /\ op' = [name |-> "search", user_id |-> user_id, args |-> args]
    /\ IF Len(args) < 2 \/ ~strptime(args[2]).ok
       THEN reply' = [kind |-> "search usage"]
       ELSE LET target == strptime(args[2]).dt
                rows   == SelectOnDate(expenses, user_id, date_isoformat(target))
            IN  IF rows = {}
                THEN reply' = [kind |-> "no data for date"]
                ELSE reply' = [kind |-> "date summary",
                               date |-> date_isoformat(target),
                               summary |-> format_summary(rows)]
    /\ UNCHANGED <<expenses, seq, now, order>>

-----------------------------------------------------------------------------
(* The updates of a behaviour.  The clock passes the boundaries of a day,  *)
(* a week and a month.                                                     *)

Instants ==
    { Start,
      DT(2026, 2, 1, 0, 0, 0, 0),
      DT(2026, 2, 1, 0, 0, 0, 500000),
      DT(2026, 2, 1, 23, 59, 59, 500000),
      DT(2026, 2, 2, 0, 0, 0, 0),
      DT(2026, 2, 8, 23, 59, 59, 500000) }

Messages ==
    { <<"food", "5">>, <<"food", "5", "+">>, <<"my", "rent", "-2.5">>,
      <<"food", "nan">>,
      <<>>, <<"5">>, <<"food", "rent">>, <<"food", "+">> }

DeleteArgs ==
    { <<>>, <<"01/02/2026">>, <<"31/02/2026">>,
      <<"01/02/2026", "02/02/2026">> }

SearchArgs == { <<"date">>, <<"date", "01/02/2026">> }

\* Every update of the model comes from one Telegram user.
Users == {11}

\* The instants of a set at or after t.
Later(instants, t) == {u \in instants : NotBefore(u, t)}

\* The instants of a set at or after t in the second of t: one handler reads
\* the clock again within the second of its first reading.
Soon(instants, t) ==
    {u \in Later(instants, t) : [u EXCEPT !.us = 0] = [t EXCEPT !.us = 0]}

Message ==
    \E parts \in Messages :
        IF ParseEntry(parts).status # "ok"
        THEN handle_message(parts, now, now, now)
        ELSE /\ Inserts(parts) => seq < MaxRows
             /\ \E t1 \in Later(Instants, now) :
                    \E t2 \in Soon(Instants, t1) :
                        \E t3 \in Soon(Instants, t2) :
                            handle_message(parts, t1, t2, t3)

Week == \E t \in Later(Instants, now) : week_summary(t)

Month == \E t \in Later(Instants, now) : month_summary(t)

Undo == undo_last

Delete == \E args \in DeleteArgs : delete_by_date(args)

Search == \E u \in Users : \E args \in SearchArgs : search_date(u, args)

Next == Message \/ Week \/ Month \/ Undo \/ Delete \/ Search

Spec == Init /\ [][Next]_vars

-----------------------------------------------------------------------------
(* What the properties speak of.                                           *)

\* The instant a stored date text stands for.
InstantOf(date) ==
    DT(date[1], date[2], date[3], date[4], date[5], date[6],
       IF Len(date) = 7 THEN date[7] ELSE 0)

\* Row r was inserted at or after instant t.
AtOrAfter(r, t) == NotBefore(InstantOf(r.date), t)

\* Row r was inserted on the calendar day of dt.
OnDay(r, dt) ==
    LET i == InstantOf(r.date) IN i.y = dt.y /\ i.mo = dt.mo /\ i.d = dt.d

\* 00:00:00 of the first day of the month of t.
MonthStart(t) == DT(t.y, t.mo, 1, 0, 0, 0, 0)

Types == {"income", "expense"}

\* Per type, the sum of the amounts of the rows inserted at or after t.
TotalsSince(table, t) ==
    [income  |-> SumAmount({r \in table : r.type = "income" /\ AtOrAfter(r, t)}),
     expense |-> SumAmount({r \in table : r.type = "expense" /\ AtOrAfter(r, t)})]

\* The maps a /week or /month reply was made from; both are empty when the
\* reply is the "no data" text.
DataOf(r) ==
    IF r.kind = "summary" THEN r.data
    ELSE [income |-> <<>>, expense |-> <<>>]

\* The rows of type T and category c inserted at or after t.
Group(table, T, c, t) ==
    {r \in table : r.type = T /\ r.category = c /\ AtOrAfter(r, t)}

\* The maps have exactly the categories of the rows inserted at or after t,
\* per type, each with the sum of its rows.
MapsMatch(data, table, t) ==
    \A T \in Types :
        /\ DOMAIN data[T] = {r.category : r \in {q \in table : q.type = T /\ AtOrAfter(q, t)}}
        /\ \A c \in DOMAIN data[T] : data[T][c] = SumAmount(Group(table, T, c, t))

\* The token handle_message reads the amount from; parts has 2 tokens or more.
AmountToken(parts) ==
    IF parts[Len(parts)] = "+" THEN parts[Len(parts) - 1] ELSE parts[Len(parts)]

\* The tokens before the amount (and before the "+").
CategoryTokens(parts) ==
    IF parts[Len(parts)] = "+" THEN SubSeq(parts, 1, Len(parts) - 2)
    ELSE SubSeq(parts, 1, Len(parts) - 1)

-----------------------------------------------------------------------------
(* The properties.                                                         *)

\* C1: every stored entry has a strictly positive amount and a type that is
\* "income" or "expense".
C1_PositiveAmountAndType ==
    \A r \in expenses : r.amount > 0 /\ r.type \in Types

\* C2: the pairs a recorded message reports are, per type, the sums of the
\* entries with timestamp >= t: t = now - 7 days for get_week_total, t = the
\* start of the month for get_month_total.
C2_TotalsAreWindowSums ==
    reply.kind = "recorded" =>
        /\ reply.week = TotalsSince(expenses, week_ago(op.at[2]))
        /\ reply.month = TotalsSince(expenses, MonthStart(op.at[3]))

\* C2, the half on get_week_total alone.
C2_WeekTotalIsWindowSum ==
    reply.kind = "recorded" =>
        reply.week = TotalsSince(expenses, week_ago(op.at[2]))

\* C3: /delete with a valid date D removes every entry of calendar day D and
\* no entry of another day.
C3_DeleteRemovesTheDay ==
    [][(op'.name = "delete" /\ reply'.kind = "deleted") =>
          expenses' = {r \in expenses : ~OnDay(r, strptime(op'.args[1]).dt)}]_vars

\* C4: the monthly totals, of get_month_total and of
\* get_month_totals_by_category, take in every entry stored at or after
\* 00:00:00 of the first day of the current month.
C4_MonthWindowStartsAtMidnight ==
    /\ reply.kind = "recorded" =>
          reply.month = TotalsSince(expenses, MonthStart(op.at[3]))
    /\ op.name = "month" =>
          \A r \in expenses :
              AtOrAfter(r, MonthStart(op.at)) =>
                  r.category \in DOMAIN DataOf(reply)[r.type]

\* C5: /search date D answers with the per-(category, type) sums of the
\* entries recorded on day D, and with the "no data" text only when there
\* is none.  (Every entry of the model is recorded by the user who searches.)
C5_SearchFindsTheDay ==
    (op.name = "search" /\ Len(op.args) >= 2 /\ strptime(op.args[2]).ok) =>
        LET day  == strptime(op.args[2]).dt
            rows == {r \in expenses : OnDay(r, day)}
        IN  IF rows = {} THEN reply.kind = "no data for date"
            ELSE /\ reply.kind = "date summary"
                 /\ reply.summary.lines =
                      {[category |-> g[1], type |-> g[2],
                        total |-> Fmt0(SumAmount(
                            {r \in rows : r.category = g[1] /\ r.type = g[2]}))] :
                          g \in {<<r.category, r.type>> : r \in rows}}

\* C6: /undo on a non-empty table removes exactly one entry, the one with
\* the highest id, which is the one inserted last among those stored, and
\* replies with its category, amount (as f"{amount:.0f}") and type; on an
\* empty table it removes nothing and replies "nothing to delete".
C6_UndoRemovesMostRecent ==
    [][op'.name = "undo" =>
          IF expenses = {}
          THEN expenses' = {} /\ reply' = [kind |-> "nothing to delete"]
          ELSE \E r \in expenses :
                  /\ \A q \in expenses : q.id <= r.id
                  /\ r.id = order[Len(order)]
                  /\ expenses' = expenses \ {r}
                  /\ reply' = [kind |-> "undone", category |-> r.category,
                               amount |-> Fmt0(r.amount), type |-> r.type]]_vars

\* C6 witness: A then B were inserted, /undo has removed B and A is stored.
C6_Witness ==
    /\ op.name = "undo" /\ reply.kind = "undone"
    /\ seq = 2 /\ order = <<1>> /\ {r.id : r \in expenses} = {1}

C8_AcceptedMessageInsertsEntry ==
    [][(op'.name = "message" /\ Len(op'.parts) >= 2
           /\ float(AmountToken(op'.parts)).ok) =>
          \E row \in expenses' \ expenses :
              /\ expenses' = expenses \cup {row}
              /\ row.type = (IF op'.parts[Len(op'.parts)] = "+"
                             THEN "income" ELSE "expense")
              /\ row.amount = float(AmountToken(op'.parts)).val
              /\ row.category = join(CategoryTokens(op'.parts))]_vars

\* C8, for the accepted messages whose amount is not NaN.
C8_NumberInsertsEntry ==
    [][(op'.name = "message" /\ Len(op'.parts) >= 2
           /\ float(AmountToken(op'.parts)).ok
           /\ ~float(AmountToken(op'.parts)).nan) =>
          \E row \in expenses' \ expenses :
              /\ expenses' = expenses \cup {row}
              /\ row.type = (IF op'.parts[Len(op'.parts)] = "+"
                             THEN "income" ELSE "expense")
              /\ row.amount = float(AmountToken(op'.parts)).val
              /\ row.category = join(CategoryTokens(op'.parts))]_vars

\* C9: in the maps of /week and /month a category is a key of the map of a
\* type exactly when an entry of the window has that type and category, and
\* its value is the sum of those entries; the window of /week starts at
\* now - 7 days, the window of /month at 00:00:00 of the first of the month.
C9_MapsOfTheWindow ==
    /\ op.name = "week" => MapsMatch(DataOf(reply), expenses, week_ago(op.at))
    /\ op.name = "month" => MapsMatch(DataOf(reply), expenses, MonthStart(op.at))

\* C9, the half on /week alone.
C9_WeekMapsOfTheWindow ==
    op.name = "week" => MapsMatch(DataOf(reply), expenses, week_ago(op.at))

\* C10: /week right after /week, and /month right after /month, answers the
\* same, and neither changes the table.
C10_SameQuerySameAnswer ==
    [][(op.name \in {"week", "month"} /\ op'.name = op.name) =>
          (reply' = reply /\ expenses' = expenses)]_vars

\* The text the window of a query starts at, as the query computes it.
WindowStart(o) ==
    IF o.name = "week" THEN isoformat(week_ago(o.at))
    ELSE isoformat(start_of_month(o.at))

\* A stored entry is dated between two window starts: at or after the
\* earlier and before the later.
EntryBetween(a, b) ==
    \E r \in expenses :
        \/ TextLeq(a, r.date) /\ TextLess(r.date, b)
        \/ TextLeq(b, r.date) /\ TextLess(r.date, a)

\* C10 as amended: /week and /month never change the table, and the same
\* query asked twice in a row answers the same whenever no stored entry is
\* dated between the starts of the two windows.
C10_SameWindowSameAnswer ==
    [][/\ op'.name \in {"week", "month"} =>
            (expenses' = expenses /\ seq' = seq)
       /\ (op.name \in {"week", "month"} /\ op'.name = op.name
              /\ ~EntryBetween(WindowStart(op), WindowStart(op'))) =>
            reply' = reply]_vars

\* C10 witness: /week was asked at two different times of an entry that is
\* in both windows, the second starting at the entry's own instant.
C10_Witness ==
    /\ op.name = "week" /\ op.again /\ reply.kind = "summary"
    /\ op.at = DT(2026, 2, 8, 23, 59, 59, 500000)
    /\ \E r \in expenses : r.date = isoformat(week_ago(op.at))

====
